---- MODULE Spec2Model ----
(***************************************************************************)
(* Model of hfnet/evaluation/utils/localization.py: covisibility           *)
(* clustering (covis_clustering), place-level matching                     *)
(* (match_against_place) and the pose acceptance policy (do_pnp).          *)
(***************************************************************************)
EXTENDS Integers, Sequences, FiniteSets, TLC

VARIABLES
    frame_ids,          \* argument frame_ids (candidate / place frames)
    local_db,           \* argument local_db: frame -> LocalDbItem
    points,             \* argument points / graph: landmark -> observers
    pc,                 \* position inside the running function
    visited,            \* covis_clustering: visited
    queue,              \* covis_clustering: queue
    components,         \* covis_clustering: components (insertion ordered)
    idx,                \* covis_clustering: position of the for loop
    clustered_frames,   \* covis_clustering: returned value
    model_info,         \* match_against_place: argument model_info
    expand_obs,         \* match_against_place: argument expand_obs
    query_desc,         \* match_against_place: argument query_desc
    ratio_thresh,       \* match_against_place: argument ratio_thresh <<num, den>>
    knn,                \* match_against_place: what matcher.knnMatch returned
    matches,            \* match_against_place: returned matches
    place_lms,          \* match_against_place: returned place_lms
    place_desc,         \* match_against_place: place_desc at the end
    n_kpts,             \* do_pnp: len(kpts)
    config,             \* do_pnp: argument config
    ransac,             \* do_pnp: what cv2.solvePnPRansac returned
    success,            \* do_pnp: local success
    inliers,            \* do_pnp: inlier indices (returned)
    refine_ret,         \* do_pnp: ret of cv2.solvePnP
    ret                 \* do_pnp: returned LocResult

clusterVars == <<visited, queue, components, idx, clustered_frames>>
matchVars == <<model_info, expand_obs, query_desc, ratio_thresh, knn, matches,
               place_lms, place_desc>>
pnpVars == <<n_kpts, config, ransac, success, inliers, refine_ret, ret>>
dbVars == <<frame_ids, local_db, points>>

vars == <<dbVars, pc, clusterVars, matchVars, pnpVars>>

\* ------------------------------------------------------------------ bounds
NFrames == 3
NLandmarks == 2
MaxQuery == 1
MaxDist == 2
MaxKpts == 3

Frames == 1..NFrames
\* landmark ids are positive: the code's validity test is f_lms > 0
Landmarks == 1..NLandmarks

\* ----------------------------------------------------------------- helpers
None == "None"

Range(s) == {s[k] : k \in 1..Len(s)}

RECURSIVE SetToSeq(_)
SetToSeq(S) ==
    IF S = {} THEN <<>>
    ELSE LET m == CHOOSE x \in S : \A y \in S : x <= y
         IN <<m>> \o SetToSeq(S \ {m})

\* 0-based position of the first x in the sequence s
IndexOf(s, x) ==
    (CHOOSE k \in 1..Len(s) : s[k] = x /\ \A j \in 1..(k - 1) : s[j] # x) - 1

RECURSIVE Concat(_)
Concat(ss) == IF ss = <<>> THEN <<>> ELSE Head(ss) \o Concat(Tail(ss))

InjectiveSeqs(S) ==
    UNION {{s \in [1..n -> S] : \A a, b \in 1..n : a # b => s[a] # s[b]}
           : n \in 0..Cardinality(S)}

\* ------------------------------------------------------- covis_clustering
\* set(i for lm in landmarks for i in points[lm].image_ids)
ConnectedFrames(f) ==
    UNION {Range(points[lm].image_ids) : lm \in Range(local_db[f].landmark_ids)}

\* queue after one exploration step (lines 69-73):
\* connected_frames &= set(frame_ids); connected_frames -= visited;
\* queue |= connected_frames
NewQueueReplace(q, f, vis) ==
    (ConnectedFrames(f) \cap Range(frame_ids)) \ vis

NewQueueNoFilter(q, f, vis) ==
    (q \ {f}) \cup (ConnectedFrames(f) \ vis)

NewQueue(q, f, vis) ==
    (q \ {f}) \cup ((ConnectedFrames(f) \cap Range(frame_ids)) \ vis)

\* the insertion performed by a stable sort on key=len, reverse=True
RECURSIVE InsertByLenUnstable(_, _)
InsertByLenUnstable(sorted, c) ==
    IF sorted = <<>> THEN <<c>>
    ELSE IF Len(Head(sorted)) > Len(c)
         THEN <<Head(sorted)>> \o InsertByLenUnstable(Tail(sorted), c)
         ELSE <<c>> \o sorted

RECURSIVE InsertByLen(_, _)
InsertByLen(sorted, c) ==
    IF sorted = <<>> THEN <<c>>
    ELSE IF Len(Head(sorted)) >= Len(c)
         THEN <<Head(sorted)>> \o InsertByLen(Tail(sorted), c)
         ELSE <<c>> \o sorted

RECURSIVE SortedByLen(_)
SortedByLen(cs) ==
    IF cs = <<>> THEN <<>>
    ELSE InsertByLen(SortedByLen(SubSeq(cs, 1, Len(cs) - 1)), cs[Len(cs)])

\* for frame_id in frame_ids: if frame_id in visited: continue
ForSkip ==
    /\ pc = "for"
    /\ idx <= Len(frame_ids)
    /\ frame_ids[idx] \in visited
    /\ idx' = idx + 1
    /\ UNCHANGED <<dbVars, pc, visited, queue, components, clustered_frames,
                   matchVars, pnpVars>>

\* new component seeded with frame_id
NewComponent ==
    /\ pc = "for"
    /\ idx <= Len(frame_ids)
    /\ frame_ids[idx] \notin visited
    /\ components' = Append(components, <<>>)
    /\ queue' = {frame_ids[idx]}
    /\ pc' = "while"
    /\ UNCHANGED <<dbVars, visited, idx, clustered_frames, matchVars,
                   pnpVars>>

\* one iteration of the while loop; queue.pop() removes an arbitrary element
Explore ==
    /\ pc = "while"
    /\ queue # {}
    /\ \E exploration_frame \in queue :
         IF exploration_frame \in visited
         THEN /\ queue' = queue \ {exploration_frame}
              /\ UNCHANGED <<visited, components>>
         ELSE LET n == Len(components)
                  vis == visited \cup {exploration_frame}
              IN /\ visited' = vis
                 /\ components' =
                      [components EXCEPT ![n] = Append(@, exploration_frame)]
                 /\ queue' = NewQueue(queue, exploration_frame, vis)
    /\ UNCHANGED <<dbVars, pc, idx, clustered_frames, matchVars, pnpVars>>

\* the while loop ends, the for loop advances
EndWhile ==
    /\ pc = "while"
    /\ queue = {}
    /\ pc' = "for"
    /\ idx' = idx + 1
    /\ UNCHANGED <<dbVars, visited, queue, components, clustered_frames,
                   matchVars, pnpVars>>

\* clustered_frames = sorted(components.values(), key=len, reverse=True)
ReturnClusters ==
    /\ pc = "for"
    /\ idx > Len(frame_ids)
    /\ clustered_frames' = SortedByLen(components)
    /\ pc' = "clustered"
    /\ UNCHANGED <<dbVars, visited, queue, components, idx, matchVars,
                   pnpVars>>

\* the database: built from one observation relation, so that
\* f in points[lm].image_ids <=> lm in local_db[f].landmark_ids, with
\* points[lm].point2D_idxs the position of lm in the frame; descriptor k of
\* frame f is the token <<f, k>>
DbOf(lms) ==
    [f \in Frames |->
        [landmark_ids |-> SetToSeq(lms[f]),
         descriptors |-> [k \in 1..Cardinality(lms[f]) |-> <<f, k - 1>>]]]

PointsOf(lms) ==
    [lm \in Landmarks |->
        LET obs == SetToSeq({f \in Frames : lm \in lms[f]})
        IN [image_ids |-> obs,
            point2D_idxs |-> [k \in 1..Len(obs) |->
                                IndexOf(SetToSeq(lms[obs[k]]), lm)]]]

InitCluster ==
    /\ \E lms \in [Frames -> SUBSET Landmarks] :
         /\ local_db = DbOf(lms)
         /\ points = PointsOf(lms)
    /\ frame_ids \in InjectiveSeqs(Frames)
    /\ pc = "for"
    /\ visited = {}
    /\ queue = {}
    /\ components = <<>>
    /\ idx = 1
    /\ clustered_frames = None
    /\ model_info = None /\ expand_obs = None /\ query_desc = None
    /\ ratio_thresh = None /\ knn = None /\ matches = None
    /\ place_lms = None /\ place_desc = None
    /\ n_kpts = None /\ config = None /\ ransac = None /\ success = None /\ inliers = None
    /\ refine_ret = None /\ ret = None

NextCluster ==
    \/ ForSkip
    \/ NewComponent
    \/ Explore
    \/ EndWhile
    \/ ReturnClusters

SpecCluster == InitCluster /\ [][NextCluster]_vars

\* ---------------------------------------------------- match_against_place
\* model_info[f].point3D_ids: the keypoints of the frame, -1 for one without
\* a landmark; local_db[f] keeps the keypoints that have one
ModelInfoOf(lms) ==
    [f \in Frames |-> [point3D_ids |-> <<-1>> \o SetToSeq(lms[f])]]

\* place_lms = np.concatenate([db.landmark_ids for db in place_db])
PlaceLms ==
    Concat([k \in 1..Len(frame_ids) |-> local_db[frame_ids[k]].landmark_ids])

\* place_desc = np.concatenate([db.descriptors for db in place_db])
PlaceDesc ==
    Concat([k \in 1..Len(frame_ids) |-> local_db[frame_ids[k]].descriptors])

\* desc_idx = np.where(f_lms[f_lms > 0] == lm)[0][0]
DescIdx(f_id, lm) ==
    IndexOf(SelectSeq(model_info[f_id].point3D_ids, LAMBDA x : x > 0), lm)

\* what the inner loop appends for one entry lm of place_lms
NewObsOf(lm) ==
    LET outside == SelectSeq(points[lm].image_ids,
                             LAMBDA f : f \notin Range(frame_ids))
    IN [k \in 1..Len(outside) |->
          [lm |-> lm, f_id |-> outside[k], desc_idx |-> DescIdx(outside[k], lm)]]

\* new_lms and new_desc_indices after `for lm in place_lms`
NewObs == Concat([k \in 1..Len(PlaceLms) |-> NewObsOf(PlaceLms[k])])

\* the pool the matching runs on, or the error raised while it is built:
\* np.concatenate([]) raises ValueError for an empty frame list, and
\* np.append(place_desc, [], axis=0) raises ValueError (a 2-D array and a
\* 1-D one) when the expansion found nothing to add
Pool ==
    IF frame_ids = <<>> THEN [raised |-> TRUE, lms |-> <<>>, desc |-> <<>>]
    ELSE IF ~expand_obs
         THEN [raised |-> FALSE, lms |-> PlaceLms, desc |-> PlaceDesc]
    ELSE IF NewObs = <<>>
         THEN [raised |-> TRUE, lms |-> <<>>, desc |-> <<>>]
    ELSE [raised |-> FALSE,
          lms |-> PlaceLms \o [k \in 1..Len(NewObs) |-> NewObs[k].lm],
          desc |-> PlaceDesc \o
                   [k \in 1..Len(NewObs) |->
                      local_db[NewObs[k].f_id].descriptors[NewObs[k].desc_idx + 1]]]

\* matcher.knnMatch(query, place_desc, k=2) for one query descriptor: two
\* distinct pool indices, the nearer first, with their distances
KnnOutcomes(n) ==
    {[n1 |-> a, n2 |-> b, d1 |-> x, d2 |-> y] :
        <<a, b, x, y>> \in {t \in (0..(n - 1)) \X (0..(n - 1)) \X (0..MaxDist) \X (0..MaxDist) :
                             t[1] # t[2] /\ t[3] <= t[4]}}

\* dist1/dist2 < ratio_thresh in floating point: 0/0 is nan, which is not
\* less than anything
RatioLessEq(d1, d2, thr) == d2 # 0 /\ d1 * thr[2] <= thr[1] * d2

RatioLess(d1, d2, thr) == d2 # 0 /\ d1 * thr[2] < thr[1] * d2

\* good = (place_lms[matches1[:, 1]] == place_lms[matches2[:, 1]])
\* good = good | (dist1/dist2 < ratio_thresh)
Good(m, lms, thr) ==
    \/ lms[m.n1 + 1] = lms[m.n2 + 1]
    \/ RatioLess(m.d1, m.d2, thr)

\* (matches1, dist1) = matches_cv2np(matches1): one row (query index,
\* pool index) per query descriptor, for its nearest neighbour
Matches1(k) == [q \in 1..Len(k) |-> <<q - 1, k[q].n1>>]

\* matches = matches1[good]
GoodMatches(k, lms, thr) ==
    LET kept == SelectSeq([q \in 1..Len(k) |-> q],
                          LAMBDA q : Good(k[q], lms, thr))
    IN [i \in 1..Len(kept) |-> Matches1(k)[kept[i]]]

\* lines 82-109: the pool is built, and expanded when expand_obs is set
BuildPool ==
    /\ pc = "match"
    /\ LET pool == Pool
       IN IF pool.raised
          THEN /\ pc' = "raised"
               /\ UNCHANGED <<place_lms, place_desc>>
          ELSE /\ place_lms' = pool.lms
               /\ place_desc' = pool.desc
               /\ pc' = "knn"
    /\ UNCHANGED <<dbVars, clusterVars, pnpVars, model_info, expand_obs,
                   query_desc, ratio_thresh, knn, matches>>

\* lines 111-138: the two nearest neighbours of every query descriptor and
\* the acceptance rule, or no match at all
KnnMatch ==
    /\ pc = "knn"
    /\ IF Len(query_desc) > 0 /\ Len(place_desc) > 1
       THEN \E k \in [1..Len(query_desc) -> KnnOutcomes(Len(place_desc))] :
              /\ knn' = k
              /\ matches' = GoodMatches(k, place_lms, ratio_thresh)
       ELSE /\ knn' = <<>>
            /\ matches' = <<>>
    /\ pc' = "matched"
    /\ UNCHANGED <<dbVars, clusterVars, pnpVars, model_info, expand_obs,
                   query_desc, ratio_thresh, place_lms, place_desc>>

NextMatch ==
    \/ BuildPool
    \/ KnnMatch

QuerySets == {[k \in 1..n |-> <<"q", k - 1>>] : n \in 0..MaxQuery}

RatioThresholds == {<<1, 2>>, <<1, 1>>}

InitMatchWith(lms) ==
    /\ local_db = DbOf(lms)
    /\ points = PointsOf(lms)
    /\ model_info = ModelInfoOf(lms)
    /\ query_desc \in QuerySets
    /\ ratio_thresh \in RatioThresholds
    /\ expand_obs \in BOOLEAN
    /\ pc = "match"
    /\ knn = None /\ matches = None /\ place_lms = None /\ place_desc = None
    /\ visited = None /\ queue = None /\ components = None /\ idx = None
    /\ clustered_frames = None
    /\ n_kpts = None /\ config = None /\ ransac = None /\ success = None /\ inliers = None
    /\ refine_ret = None /\ ret = None

\* every place over every database
InitMatch ==
    /\ \E lms \in [Frames -> SUBSET Landmarks] : InitMatchWith(lms)
    /\ frame_ids \in InjectiveSeqs(Frames)

SpecMatch == InitMatch /\ [][NextMatch]_vars

\* the place <<1>> or <<1, 2>>, frames 1 and 2 the only observers
InitMatchRule ==
    /\ \E lms \in {l \in [Frames -> SUBSET Landmarks] :
                     \A f \in Frames : f > 2 => l[f] = {}} : InitMatchWith(lms)
    /\ frame_ids \in {<<1>>, <<1, 2>>}

SpecMatchRule == InitMatchRule /\ [][NextMatch]_vars

\* ------------------------------------------------------------------ do_pnp
\* loc_failure = LocResult(False, 0, 0, None); a ratio is <<num, den>>
loc_failure ==
    [success |-> FALSE, num_inliers |-> 0, inlier_ratio |-> <<0, 1>>, T |-> None]

\* a >= b for ratios with positive denominators
RatioGeq(a, b) == a[1] * b[2] >= b[1] * a[2]

\* `if config['additional_min_inliers']:` None and 0 are both false; the
\* value is <<>> for None and <<v>> for the number v
Truthy(x) == x # <<>> /\ x[1] # 0

\* lines 154-157
Accepted(num_inliers, inlier_ratio, cfg) ==
    LET s1 == num_inliers >= cfg.min_inliers
        s2 == s1 /\ RatioGeq(inlier_ratio, cfg.min_inlier_ratio)
    IN IF Truthy(cfg.additional_min_inliers)
       THEN s2 \/ num_inliers >= cfg.additional_min_inliers[1]
       ELSE s2

\* cv2.solvePnPRansac: no consensus, or a pose with a non-empty inlier set;
\* on failure the function returns loc_failure and no inliers
SolvePnPRansac ==
    /\ pc = "pnp"
    /\ \/ /\ ransac' = [success |-> FALSE, inliers |-> {}]
          /\ inliers' = {}
          /\ ret' = loc_failure
          /\ pc' = "returned"
          /\ UNCHANGED success
       \/ \E found \in (SUBSET (0..(n_kpts - 1))) \ {{}} :
            /\ ransac' = [success |-> TRUE, inliers |-> found]
            /\ inliers' = found
            /\ success' = TRUE
            /\ pc' = "policy"
            /\ UNCHANGED ret
    /\ UNCHANGED <<dbVars, clusterVars, matchVars, n_kpts, config, refine_ret>>

\* lines 151-157: the acceptance policy
Policy ==
    /\ pc = "policy"
    /\ success' = Accepted(Cardinality(inliers),
                           <<Cardinality(inliers), n_kpts>>, config)
    /\ pc' = "refine"
    /\ UNCHANGED <<dbVars, clusterVars, matchVars, n_kpts, config, ransac,
                   inliers, refine_ret, ret>>

\* lines 159-163: cv2.solvePnP on the inliers, then `assert ret`
Refine ==
    /\ pc = "refine"
    /\ \E r \in BOOLEAN :
         /\ refine_ret' = IF r THEN "True" ELSE "False"
         /\ pc' = IF r THEN "pose" ELSE "raised"
    /\ UNCHANGED <<dbVars, clusterVars, matchVars, n_kpts, config, ransac,
                   success, inliers, ret>>

\* lines 165-175: ret = LocResult(success, num_inliers, inlier_ratio, w_T_query)
ReturnPose ==
    /\ pc = "pose"
    /\ ret' = [success |-> success,
               num_inliers |-> Cardinality(inliers),
               inlier_ratio |-> <<Cardinality(inliers), n_kpts>>,
               T |-> "w_T_query"]
    /\ pc' = "returned"
    /\ UNCHANGED <<dbVars, clusterVars, matchVars, n_kpts, config, ransac,
                   success, inliers, refine_ret>>

InlierRatios == {<<0, 1>>, <<1, 2>>, <<1, 1>>}

InitPnp ==
    /\ n_kpts \in 1..MaxKpts
    /\ config \in [min_inliers : 0..MaxKpts,
                   min_inlier_ratio : InlierRatios,
                   additional_min_inliers :
                       {<<>>} \cup {<<v>> : v \in 0..MaxKpts}]
    /\ pc = "pnp"
    /\ ransac = None /\ success = FALSE /\ inliers = None
    /\ refine_ret = None /\ ret = None
    /\ frame_ids = None /\ local_db = None /\ points = None
    /\ visited = None /\ queue = None /\ components = None /\ idx = None
    /\ clustered_frames = None
    /\ model_info = None /\ expand_obs = None /\ query_desc = None
    /\ ratio_thresh = None /\ knn = None /\ matches = None
    /\ place_lms = None /\ place_desc = None

NextPnp ==
    \/ SolvePnPRansac
    \/ Policy
    \/ Refine
    \/ ReturnPose

SpecPnp == InitPnp /\ [][NextPnp]_vars

\* ------------------------------------------------ claims: covis_clustering
Candidates == Range(frame_ids)

\* the frames of the returned places, one after the other
AllPlaced == Concat(clustered_frames)

PlaceOf(f) == CHOOSE p \in 1..Len(clustered_frames) :
                 f \in Range(clustered_frames[p])

SharesLandmark(f, g) ==
    Range(local_db[f].landmark_ids) \cap Range(local_db[g].landmark_ids) # {}

RECURSIVE Linked(_)
Linked(S) ==
    LET T == S \cup {g \in Candidates : \E f \in S : SharesLandmark(f, g)}
    IN IF T = S THEN S ELSE Linked(T)

\* C1: the returned places partition the candidates: every frame of
\* frame_ids occupies exactly one position of exactly one place, and no
\* place holds a frame that is not in frame_ids.
C1_Partition ==
    pc = "clustered" =>
        /\ \A f \in Candidates :
             Cardinality({k \in 1..Len(AllPlaced) : AllPlaced[k] = f}) = 1
        /\ \A k \in 1..Len(AllPlaced) : AllPlaced[k] \in Candidates

C1_Witness ==
    /\ pc = "clustered"
    /\ Len(clustered_frames) >= 2
    /\ \E lm \in Landmarks : \E f \in Candidates : \E g \in Frames \ Candidates :
         {f, g} \subseteq Range(points[lm].image_ids)

\* C2: the returned places are the connected components of the covisibility
\* graph restricted to the candidates: two candidates are in the same place
\* iff a chain of candidates with a shared landmark between consecutive frames
\* links them.
C2_Components ==
    pc = "clustered" =>
        \A f \in Candidates :
            {g \in Candidates :
                \E p \in 1..Len(clustered_frames) :
                    {f, g} \subseteq Range(clustered_frames[p])}
            = Linked({f})

C2_Witness ==
    /\ pc = "clustered"
    /\ \E f, g \in Candidates :
         /\ f # g
         /\ ~SharesLandmark(f, g)
         /\ g \in Linked({f})
         /\ PlaceOf(f) = PlaceOf(g)

\* position in frame_ids of the first member of a place to occur there
SeedPos(place) ==
    CHOOSE k \in 1..Len(frame_ids) :
        /\ frame_ids[k] \in Range(place)
        /\ \A j \in 1..(k - 1) : frame_ids[j] \notin Range(place)

\* C3: places are returned by non-increasing size, and places of equal size
\* in discovery order (the place whose seed occurs earlier in frame_ids first).
C3_SortedStable ==
    pc = "clustered" =>
        \A p, q \in 1..Len(clustered_frames) :
            p < q =>
                /\ Len(clustered_frames[p]) >= Len(clustered_frames[q])
                /\ Len(clustered_frames[p]) = Len(clustered_frames[q]) =>
                     SeedPos(clustered_frames[p]) < SeedPos(clustered_frames[q])

C3_Witness ==
    /\ pc = "clustered"
    /\ \E p, q \in 1..Len(clustered_frames) :
         /\ p < q
         /\ Len(clustered_frames[p]) = Len(clustered_frames[q])
         /\ clustered_frames[p][1] > clustered_frames[q][1]

\* the clustering when the frontier is a first-in first-out queue
RECURSIVE FifoComponent(_, _, _)
FifoComponent(q, vis, comp) ==
    IF q = <<>> THEN comp
    ELSE IF Head(q) \in vis THEN FifoComponent(Tail(q), vis, comp)
    ELSE LET vis2 == vis \cup {Head(q)}
             new == ((ConnectedFrames(Head(q)) \cap Candidates) \ vis2)
                        \ Range(Tail(q))
         IN FifoComponent(Tail(q) \o SetToSeq(new), vis2, Append(comp, Head(q)))

RECURSIVE FifoComponents(_, _, _)
FifoComponents(k, vis, comps) ==
    IF k > Len(frame_ids) THEN comps
    ELSE IF frame_ids[k] \in vis THEN FifoComponents(k + 1, vis, comps)
    ELSE LET c == FifoComponent(<<frame_ids[k]>>, vis, <<>>)
         IN FifoComponents(k + 1, vis \cup Range(c), Append(comps, c))

\* C9: the output is reproducible: for one input every execution returns the
\* same sequence of places with the same order of frames inside each place,
\* whichever pending frontier frame is taken next; so every execution returns
\* what the first-in first-out execution returns.
C9_Reproducible ==
    pc = "clustered" =>
        clustered_frames = SortedByLen(FifoComponents(1, {}, <<>>))

\* --------------------------------------------- claims: match_against_place
\* C4: with a non-empty query set and a pool of at least 2 descriptors, the
\* pair (q, n1) is output iff the two nearest pool entries carry the same
\* landmark or d1/d2 < ratio_thresh; no other pair is output and no query
\* index occurs twice.
C4_AcceptRule ==
    (pc = "matched" /\ Len(query_desc) > 0 /\ Len(place_desc) > 1) =>
        /\ \A q \in 0..(Len(query_desc) - 1) :
             \A n \in 0..(Len(place_desc) - 1) :
                <<q, n>> \in Range(matches) <=>
                    /\ n = knn[q + 1].n1
                    /\ \/ place_lms[knn[q + 1].n1 + 1] = place_lms[knn[q + 1].n2 + 1]
                       \/ /\ knn[q + 1].d2 > 0
                          /\ knn[q + 1].d1 * ratio_thresh[2]
                               < ratio_thresh[1] * knn[q + 1].d2
        /\ \A i, j \in 1..Len(matches) : i # j => matches[i][1] # matches[j][1]
        /\ \A i \in 1..Len(matches) :
             /\ matches[i][1] \in 0..(Len(query_desc) - 1)
             /\ matches[i][2] \in 0..(Len(place_desc) - 1)

\* a query whose two neighbours differ in landmark at exactly the threshold
C4_Witness ==
    /\ pc = "matched"
    /\ Len(query_desc) > 0
    /\ Len(place_desc) > 1
    /\ place_lms[knn[1].n1 + 1] # place_lms[knn[1].n2 + 1]
    /\ knn[1].d2 > 0
    /\ knn[1].d1 * ratio_thresh[2] = ratio_thresh[1] * knn[1].d2
    /\ matches = <<>>

\* C5: with expand_obs at its default, match_against_place returns for every
\* place frame list and every query set, and returns no match when the query
\* set is empty or the pool holds at most 1 descriptor.
C5_NeverFails ==
    (expand_obs = FALSE) =>
        /\ pc # "raised"
        /\ (pc = "matched" /\ (Len(query_desc) = 0 \/ Len(place_desc) <= 1))
              => matches = <<>>

\* the descriptor of frame f for landmark lm
DescFor(f, lm) ==
    local_db[f].descriptors[IndexOf(local_db[f].landmark_ids, lm) + 1]

\* the pairs (lm in the unexpanded pool, f observing lm outside the place)
OutsidePairs ==
    {pr \in Range(PlaceLms) \X Frames :
        /\ pr[2] \in Range(points[pr[1]].image_ids)
        /\ pr[2] \notin Range(frame_ids)}

\* C10, where some frame outside the place observes a landmark of the pool:
\* with expand_obs = true the returned pool is the unexpanded pool followed by
\* exactly one entry for each pair (lm in the unexpanded pool, frame f outside
\* the place observing lm), carrying lm and f's descriptor for lm; nothing
\* else is added.
C10_Expansion ==
    (expand_obs = TRUE /\ frame_ids # <<>> /\ OutsidePairs # {}
        /\ pc # "match") =>
        /\ pc # "raised"
        /\ Len(place_lms) = Len(place_desc)
        /\ Len(place_lms) >= Len(PlaceLms)
        /\ SubSeq(place_lms, 1, Len(PlaceLms)) = PlaceLms
        /\ SubSeq(place_desc, 1, Len(PlaceLms)) = PlaceDesc
        /\ \A pr \in OutsidePairs :
             Cardinality({k \in (Len(PlaceLms) + 1)..Len(place_lms) :
                            /\ place_lms[k] = pr[1]
                            /\ place_desc[k] = DescFor(pr[2], pr[1])}) = 1
        /\ \A k \in (Len(PlaceLms) + 1)..Len(place_lms) :
             <<place_lms[k], place_desc[k][1]>> \in OutsidePairs

\* ------------------------------------------------------------ claims: do_pnp
\* C6: the returned success flag is: raw solver success and ((num_inliers >=
\* min_inliers and inlier_ratio >= min_inlier_ratio) or (additional_min_inliers
\* is configured and num_inliers >= additional_min_inliers)).
C6_SuccessFlag ==
    pc = "returned" =>
        LET num == Cardinality(ransac.inliers)
        IN ret.success <=>
              /\ ransac.success
              /\ \/ /\ num >= config.min_inliers
                    /\ num * config.min_inlier_ratio[2]
                         >= config.min_inlier_ratio[1] * n_kpts
                 \/ /\ config.additional_min_inliers # <<>>
                    /\ num >= config.additional_min_inliers[1]

\* C7: every returned result with success = false is the failure result (zero
\* inliers, no transform) with an empty inlier set, and a transform is
\* present only with success = true.
C7_FailureResult ==
    pc = "returned" =>
        /\ ret.success = FALSE =>
              (ret.num_inliers = 0 /\ ret.T = None /\ inliers = {})
        /\ ret.T # None => ret.success = TRUE

\* C8: the refinement solve is called, and its abort raised, only after the
\* acceptance policy accepted the estimate.
C8_RefineAfterAccept ==
    /\ refine_ret # None => success = TRUE
    /\ pc = "raised" => success = TRUE

====
